---- MODULE Spec2Model ----
(***************************************************************************)
(* MediaFrameReaderContext (Shared/HoloLensForCV): the FrameArrived        *)
(* handler that turns a MediaFrameReference into a SensorFrame, pushes it  *)
(* to the ISensorFrameSink and keeps it in the mutex-guarded latest-frame  *)
(* slot read by GetLatestSensorFrame.                                      *)
(*                                                                         *)
(* Arrivals for one context do not overlap: one callback thread runs the   *)
(* handler step by step, and reader threads call GetLatestSensorFrame at   *)
(* any moment.                                                             *)
(***************************************************************************)
EXTENDS Integers, Sequences, FiniteSets, TLC

\* ------------------------------------------------------------------ bounds
MaxArrivals == 2        \* FrameArrived invocations, concurrent specification
MaxDataArrivals == 1    \* FrameArrived invocations, data specification
NumReaders == 1         \* threads calling GetLatestSensorFrame
MaxLiveArrivals == 1    \* FrameArrived invocations, scheduled specification

\* --------------------------------------------------------------- constants
Float4x4Cells == 16     \* float members of Windows::Foundation::Numerics::float4x4
FloatBytes == 4         \* sizeof(float)
ByteRange == 256

\* ------------------------------------------------------------------ values
Null == [tag |-> "nullptr"]           \* a null ^ handle to any object
nullptr == 0                          \* a null SensorFrame^ (heap reference)
TornRef == -1                         \* a SensorFrame^ read during a racing write
Unset == <<"unset">>                  \* a float4x4 property nobody assigned yet

CallbackThread == 0
Readers == 1..NumReaders
Threads == {CallbackThread} \cup Readers
NoOwner == -1

VisibleLightTypes ==
    {"VisibleLightLeftFront", "VisibleLightLeftLeft",
     "VisibleLightRightFront", "VisibleLightRightRight"}
SensorTypes == VisibleLightTypes \cup {"PhotoVideo"}

c_MFSampleExtension_Spatial_CameraCoordinateSystem == "CameraCoordinateSystem"
c_MFSampleExtension_Spatial_CameraViewTransform == "CameraViewTransform"
MFSampleExtension_SensorStreaming_CameraIntrinsics == "CameraIntrinsics"

\* ---------------------------------------------------------------- float4x4
\* A float4x4 is its memory: 16 floats of 4 bytes each, in address order.
FloatOf(b1, b2, b3, b4) == <<b1, b2, b3, b4>>
ZeroFloat == FloatOf(0, 0, 0, 0)
OneFloat == FloatOf(0, 0, 128, 63)
TwoFloat == FloatOf(0, 0, 0, 64)

\* memset(&zero, 0, sizeof(zero))
zero == [i \in 1..Float4x4Cells |-> ZeroFloat]

ShiftedTransform ==
    [i \in 1..Float4x4Cells |-> IF i \in {1, 6, 11, 16} THEN OneFloat
                                ELSE IF i = 13 THEN TwoFloat ELSE ZeroFloat]

\* The float stored in bytes 4j-3 .. 4j of data.
FloatAtSwapped(data, j) ==
    LET b == FloatBytes * (j - 1)
    IN  FloatOf(data[b + 4], data[b + 3], data[b + 2], data[b + 1])
FloatAt(data, j) ==
    LET b == FloatBytes * (j - 1)
    IN  FloatOf(data[b + 1], data[b + 2], data[b + 3], data[b + 4])

\* *reinterpret_cast<float4x4*>(array->Data): the first 64 bytes of the array.
ReinterpretAsFloat4x4(data) == [j \in 1..Float4x4Cells |-> FloatAt(data, j)]

\* Byte payloads the view-transform key can carry (a 64-byte blob, or a
\* longer array of which the first 64 bytes are the matrix).
IdentityBytes ==
    [i \in 1..(Float4x4Cells * FloatBytes) |->
        IF i \in {3, 23, 43, 63} THEN 128
        ELSE IF i \in {4, 24, 44, 64} THEN 63 ELSE 0]
RampBytes ==
    [i \in 1..(Float4x4Cells * FloatBytes + FloatBytes) |-> (7 * i + 3) % ByteRange]

\* ------------------------------------------------------------ property bag
CoordinateSystemValue == [type |-> "SpatialCoordinateSystem"]
ForeignValue == [type |-> "PropertyValue"]
ByteArrayValue(data) == [type |-> "IBoxArray<byte>", Value |-> data]
IntrinsicsValue == [type |-> "ICameraIntrinsics"]

HasKey(props, key) == key \in DOMAIN props
Lookup(props, key) == props[key]

\* safe_cast<T^>(v): null stays null, an object of type T is returned, any
\* other object raises InvalidCastException.
CastFails(v, type) == v # Null /\ v.type # type

\* What the source put under one recognised key: nothing, or a value.
Absent == [present |-> FALSE]
Present(v) == [present |-> TRUE, value |-> v]

OriginEntries == {Absent, Present(Null), Present(ForeignValue),
                  Present(CoordinateSystemValue)}
ViewEntries == {Absent, Present(ForeignValue),
                Present(ByteArrayValue(RampBytes))}
IntrinsicsEntries == {Absent, Present(IntrinsicsValue)}

PropertyBag(origin, view, intrinsics) ==
    LET entry == [k \in {c_MFSampleExtension_Spatial_CameraCoordinateSystem,
                         c_MFSampleExtension_Spatial_CameraViewTransform,
                         MFSampleExtension_SensorStreaming_CameraIntrinsics} |->
                    IF k = c_MFSampleExtension_Spatial_CameraCoordinateSystem
                    THEN origin
                    ELSE IF k = c_MFSampleExtension_Spatial_CameraViewTransform
                    THEN view ELSE intrinsics]
    IN  [k \in {q \in DOMAIN entry : entry[q].present} |-> entry[k].value]

\* ------------------------------------------------- MediaFrameReference
\* Pixel storage is numbered; the frame source decodes into storage 1, which
\* it reuses for later frames.
SourceBuffer == 1
PixelContents == {"exposure_a", "exposure_b"}

\* A SoftwareBitmap: the storage holding its pixels, and its dimensions.
SoftwareBitmap(pixels, width, height) ==
    [pixels |-> pixels, PixelWidth |-> width, PixelHeight |-> height]

MediaFrame(ticks, bitmap, props) ==
    [SystemRelativeTime |-> ticks,
     VideoMediaFrame |-> [SoftwareBitmap |-> bitmap],
     Properties |-> props]

\* TryAcquireLatestFrame results that fail validation.
NoFrame == Null
NoVideoFrame == [SystemRelativeTime |-> 10, VideoMediaFrame |-> Null,
                 Properties |-> PropertyBag(Absent, Absent, Absent)]
NoBitmapFrame == MediaFrame(10, Null, PropertyBag(Absent, Absent, Absent))
PayloadlessFrames == {NoFrame, NoVideoFrame, NoBitmapFrame}

RelativeTicks == {10, 25}
PixelWidths == {160, 1073741824}

\* Every frame the source can hand out (data specification).
AllFrames ==
    PayloadlessFrames \cup
    { MediaFrame(t, SoftwareBitmap(SourceBuffer, w, 480), PropertyBag(o, v, i)) :
        t \in RelativeTicks, w \in PixelWidths,
        o \in OriginEntries, v \in ViewEntries, i \in IntrinsicsEntries }

\* A few of them (concurrent specification).
LeanFrames ==
    PayloadlessFrames \cup
    { MediaFrame(10, SoftwareBitmap(SourceBuffer, 160, 480),
                 PropertyBag(Absent, Absent, Absent)),
      MediaFrame(25, SoftwareBitmap(SourceBuffer, 160, 480),
                 PropertyBag(Present(CoordinateSystemValue),
                             Present(ByteArrayValue(IdentityBytes)),
                             Present(IntrinsicsValue))),
      MediaFrame(25, SoftwareBitmap(SourceBuffer, 160, 480),
                 PropertyBag(Present(CoordinateSystemValue),
                             Present(ForeignValue), Absent)) }

\* -------------------------------------------------------------- collaborators
\* Io::TimeConverter: a fixed offset between the two tick domains.
TimeOffsets == {0, 1000}
RelativeTicksToAbsoluteTicks(offset, ticks) == ticks + offset

\* The transform TryGetTransformTo resolves (boxed), when it resolves one.
ResolvedTransforms == {ShiftedTransform}
Box(m) == [Value |-> m]

\* -------------------------------------------------------------------- state
VARIABLES
    sensorType,               \* _sensorType
    sensorFrameSink,          \* _sensorFrameSink # nullptr
    timeConverter,            \* _timeConverter: its offset
    latestSensorFrame,        \* _latestSensorFrame (a heap reference)
    latestSensorFrameMutex,   \* _latestSensorFrameMutex: the owning thread
    heap,                     \* the SensorFrame objects created so far
    sent,                     \* references passed to _sensorFrameSink->Send
    stored,                   \* references assigned to _latestSensorFrame
    pc,                       \* position of the callback thread in FrameArrived
    local,                    \* FrameArrived's local variables
    outcome,                  \* how the last FrameArrived invocation ended
    arrivals,                 \* FrameArrived invocations so far
    rpc,                      \* position of each thread in GetLatestSensorFrame
    rlocal,                   \* each thread's latestSensorFrame local
    buffers,                  \* contents of every pixel storage
    exposureTicks             \* SystemRelativeTime behind each SensorFrame

vars == <<sensorType, sensorFrameSink, timeConverter, latestSensorFrame,
          latestSensorFrameMutex, heap, sent, stored, pc, local, outcome,
          arrivals, rpc, rlocal, buffers, exposureTicks>>

context == <<sensorType, sensorFrameSink, timeConverter>>
readers == <<rpc, rlocal>>

Range(q) == {q[i] : i \in DOMAIN q}

NoLocals ==
    [frame |-> Null, timestamp |-> 0, perceptionTimestamp |-> Null,
     softwareBitmap |-> Null, sensorFrame |-> nullptr,
     frameCoordinateSystem |-> Null, frameToOriginReference |-> Null,
     frameToOriginObtained |-> FALSE]

\* ref new SensorFrame(sensorType, timestamp, softwareBitmap)
SensorFrame(type, timestamp, bitmap) ==
    [FrameType |-> type, Timestamp |-> timestamp, SoftwareBitmap |-> bitmap,
     FrameToOrigin |-> Unset, CameraViewTransform |-> Unset,
     CameraIntrinsics |-> Null]

\* MediaFrameReaderContext::MediaFrameReaderContext
InitContext(types, offsets) ==
    /\ sensorType \in types
    /\ sensorFrameSink \in BOOLEAN
    /\ timeConverter \in offsets
    /\ latestSensorFrame = nullptr
    /\ latestSensorFrameMutex = NoOwner
    /\ heap = <<>>
    /\ sent = <<>>
    /\ stored = <<>>
    /\ pc = "idle"
    /\ local = NoLocals
    /\ outcome = "none"
    /\ arrivals = 0
    /\ rpc = [t \in Threads |-> "idle"]
    /\ rlocal = [t \in Threads |-> nullptr]
    /\ buffers = <<"exposure_a">>
    /\ exposureTicks = <<>>

\* ------------------------------------------------------------ FrameArrived
\* The handler returns (return statement or end of the function).
Return(how) ==
    /\ pc' = "idle"
    /\ local' = NoLocals
    /\ outcome' = how

\* A Platform::Exception nobody catches leaves the handler.
Throw(site) == Return(site)

ExceptionOutcomes ==
    {"throw_copy", "throw_origin_cast", "throw_origin_provider",
     "throw_view_cast", "throw_send"}

\* sender->TryAcquireLatestFrame()
TryAcquireLatestFrame(frames, limit) ==
    /\ pc = "idle"
    /\ arrivals < limit
    /\ \E f \in frames : local' = [NoLocals EXCEPT !.frame = f]
    /\ arrivals' = arrivals + 1
    /\ pc' = "validate"
    /\ UNCHANGED <<context, buffers, exposureTicks,
                   latestSensorFrame, latestSensorFrameMutex, heap,
                   sent, stored, outcome, readers>>

AcquireLean == TryAcquireLatestFrame(LeanFrames, MaxArrivals)
AcquireAny == TryAcquireLatestFrame(AllFrames, MaxDataArrivals)
AcquireLive == TryAcquireLatestFrame(LeanFrames, MaxLiveArrivals)

\* The three null checks.
ValidateFrameNoBitmapCheck ==
    /\ pc = "validate"
    /\ IF local.frame = Null THEN Return("null_frame")
       ELSE IF local.frame.VideoMediaFrame = Null THEN Return("no_video")
       ELSE /\ pc' = "timestamp"
            /\ UNCHANGED <<local, outcome>>
    /\ UNCHANGED <<context, buffers, exposureTicks,
                   latestSensorFrame, latestSensorFrameMutex, heap,
                   sent, stored, arrivals, readers>>
ValidateFrame ==
    /\ pc = "validate"
    /\ IF local.frame = Null THEN Return("null_frame")
       ELSE IF local.frame.VideoMediaFrame = Null THEN Return("no_video")
       ELSE IF local.frame.VideoMediaFrame.SoftwareBitmap = Null
       THEN Return("no_bitmap")
       ELSE /\ pc' = "timestamp"
            /\ UNCHANGED <<local, outcome>>
    /\ UNCHANGED <<context, buffers, exposureTicks,
                   latestSensorFrame, latestSensorFrameMutex, heap,
                   sent, stored, arrivals, readers>>

\* timestamp.UniversalTime = _timeConverter.RelativeTicksToAbsoluteTicks(...)
ConvertTimestampDrifts ==
    /\ pc = "timestamp"
    /\ local' = [local EXCEPT !.timestamp =
                    RelativeTicksToAbsoluteTicks(timeConverter + arrivals,
                                                 local.frame.SystemRelativeTime)]
    /\ pc' = "pose"
    /\ UNCHANGED <<context, buffers, exposureTicks,
                   latestSensorFrame, latestSensorFrameMutex, heap,
                   sent, stored, outcome, arrivals, readers>>
ConvertTimestamp ==
    /\ pc = "timestamp"
    /\ local' = [local EXCEPT !.timestamp =
                    RelativeTicksToAbsoluteTicks(timeConverter,
                                                 local.frame.SystemRelativeTime)]
    /\ pc' = "pose"
    /\ UNCHANGED <<context, buffers, exposureTicks,
                   latestSensorFrame, latestSensorFrameMutex, heap,
                   sent, stored, outcome, arrivals, readers>>

\* try { perceptionTimestamp = FromHistoricalTargetTime(timestamp); }
FromHistoricalTargetTime ==
    /\ pc = "pose"
    /\ \E ok \in BOOLEAN :
          IF ok
          THEN /\ local' = [local EXCEPT !.perceptionTimestamp =
                               [TargetTime |-> local.timestamp]]
               /\ pc' = "copy"
          ELSE /\ pc' = "pose_catch"
               /\ UNCHANGED local
    /\ UNCHANGED <<context, buffers, exposureTicks,
                   latestSensorFrame, latestSensorFrameMutex, heap,
                   sent, stored, outcome, arrivals, readers>>

\* catch (Platform::Exception^) { trace; return; }
PoseCatchFallsThrough ==
    /\ pc = "pose_catch"
    /\ pc' = "copy"
    /\ UNCHANGED <<context, buffers, exposureTicks,
                   latestSensorFrame, latestSensorFrameMutex, heap,
                   sent, stored, local, outcome, arrivals, readers>>
PoseCatch ==
    /\ pc = "pose_catch"
    /\ Return("pose_failed")
    /\ UNCHANGED <<context, buffers, exposureTicks,
                   latestSensorFrame, latestSensorFrameMutex, heap,
                   sent, stored, arrivals, readers>>

\* SoftwareBitmap::Copy(frame->VideoMediaFrame->SoftwareBitmap)
CopySoftwareBitmapAliasesSource ==
    /\ pc = "copy"
    /\ \E ok \in BOOLEAN :
          IF ok
          THEN /\ local' = [local EXCEPT !.softwareBitmap =
                               local.frame.VideoMediaFrame.SoftwareBitmap]
               /\ pc' = "construct"
               /\ UNCHANGED outcome
          ELSE Throw("throw_copy")
    /\ UNCHANGED <<context, buffers, exposureTicks,
                   latestSensorFrame, latestSensorFrameMutex, heap,
                   sent, stored, arrivals, readers>>
CopySoftwareBitmap ==
    /\ pc = "copy"
    /\ \E ok \in BOOLEAN :
          IF ok
          THEN LET source == local.frame.VideoMediaFrame.SoftwareBitmap
               IN  /\ buffers' = Append(buffers, buffers[source.pixels])
                   /\ local' = [local EXCEPT !.softwareBitmap =
                                    [source EXCEPT !.pixels = Len(buffers) + 1]]
                   /\ pc' = "construct"
                   /\ UNCHANGED outcome
          ELSE /\ Throw("throw_copy")
               /\ UNCHANGED buffers
    /\ UNCHANGED <<context, exposureTicks,
                   latestSensorFrame, latestSensorFrameMutex, heap,
                   sent, stored, arrivals, readers>>

\* SensorFrame^ sensorFrame = ref new SensorFrame(...)
NewSensorFrame ==
    /\ pc = "construct"
    /\ heap' = Append(heap, SensorFrame(sensorType, local.timestamp,
                                        local.softwareBitmap))
    /\ exposureTicks' = Append(exposureTicks, local.frame.SystemRelativeTime)
    /\ local' = [local EXCEPT !.sensorFrame = Len(heap) + 1]
    /\ pc' = "origin_lookup"
    /\ UNCHANGED <<context, buffers,
                   latestSensorFrame, latestSensorFrameMutex,
                   sent, stored, outcome, arrivals, readers>>

\* if (frame->Properties->HasKey(key)) frameCoordinateSystem = safe_cast<...>(Lookup(key))
LookupFrameCoordinateSystem ==
    /\ pc = "origin_lookup"
    /\ LET props == local.frame.Properties
           key == c_MFSampleExtension_Spatial_CameraCoordinateSystem
       IN  IF ~HasKey(props, key)
           THEN /\ pc' = "origin_resolve"
                /\ UNCHANGED <<local, outcome>>
           ELSE IF CastFails(Lookup(props, key), "SpatialCoordinateSystem")
           THEN Throw("throw_origin_cast")
           ELSE /\ local' = [local EXCEPT !.frameCoordinateSystem =
                                Lookup(props, key)]
                /\ pc' = "origin_resolve"
                /\ UNCHANGED outcome
    /\ UNCHANGED <<context, buffers, exposureTicks,
                   latestSensorFrame, latestSensorFrameMutex, heap,
                   sent, stored, arrivals, readers>>

\* if (nullptr != frameCoordinateSystem) { TryGetTransformTo(origin); ... }
TryGetTransformToForgetsObtained ==
    /\ pc = "origin_resolve"
    /\ IF local.frameCoordinateSystem = Null
       THEN /\ pc' = "origin_default"
            /\ UNCHANGED <<local, heap, outcome>>
       ELSE \/ /\ Throw("throw_origin_provider")
               /\ UNCHANGED heap
            \/ \E r \in {Null} \cup {Box(m) : m \in ResolvedTransforms} :
                  /\ IF r # Null
                     THEN heap' = [heap EXCEPT
                                 ![local.sensorFrame].FrameToOrigin = r.Value]
                     ELSE UNCHANGED heap
                  /\ local' = [local EXCEPT !.frameToOriginReference = r]
                  /\ pc' = "origin_default"
                  /\ UNCHANGED outcome
    /\ UNCHANGED <<context, buffers, exposureTicks,
                   latestSensorFrame, latestSensorFrameMutex,
                   sent, stored, arrivals, readers>>
TryGetTransformTo ==
    /\ pc = "origin_resolve"
    /\ IF local.frameCoordinateSystem = Null
       THEN /\ pc' = "origin_default"
            /\ UNCHANGED <<local, heap, outcome>>
       ELSE \/ \* GetOriginFrameOfReference() or the resolution raises
               /\ Throw("throw_origin_provider")
               /\ UNCHANGED heap
            \/ \E r \in {Null} \cup {Box(m) : m \in ResolvedTransforms} :
                  /\ IF r # Null
                     THEN /\ heap' = [heap EXCEPT
                                 ![local.sensorFrame].FrameToOrigin = r.Value]
                          /\ local' = [local EXCEPT
                                 !.frameToOriginReference = r,
                                 !.frameToOriginObtained = TRUE]
                     ELSE /\ local' = [local EXCEPT
                                 !.frameToOriginReference = r]
                          /\ UNCHANGED heap
                  /\ pc' = "origin_default"
                  /\ UNCHANGED outcome
    /\ UNCHANGED <<context, buffers, exposureTicks,
                   latestSensorFrame, latestSensorFrameMutex,
                   sent, stored, arrivals, readers>>

\* if (!frameToOriginObtained) sensorFrame->FrameToOrigin = zero;
ZeroFrameToOriginSkipped ==
    /\ pc = "origin_default"
    /\ pc' = "view"
    /\ UNCHANGED <<context, buffers, exposureTicks,
                   latestSensorFrame, latestSensorFrameMutex, heap,
                   sent, stored, local, outcome, arrivals, readers>>
ZeroFrameToOrigin ==
    /\ pc = "origin_default"
    /\ IF ~local.frameToOriginObtained
       THEN heap' = [heap EXCEPT ![local.sensorFrame].FrameToOrigin = zero]
       ELSE UNCHANGED heap
    /\ pc' = "view"
    /\ UNCHANGED <<context, buffers, exposureTicks,
                   latestSensorFrame, latestSensorFrameMutex,
                   sent, stored, local, outcome, arrivals, readers>>

\* The camera view transform: the key's bytes reinterpreted, or zero.
SetCameraViewTransform ==
    /\ pc = "view"
    /\ LET props == local.frame.Properties
           key == c_MFSampleExtension_Spatial_CameraViewTransform
       IN  IF HasKey(props, key)
           THEN IF \/ CastFails(Lookup(props, key), "IBoxArray<byte>")
                   \/ Lookup(props, key) = Null
                THEN /\ Throw("throw_view_cast")
                     /\ UNCHANGED heap
                ELSE /\ heap' = [heap EXCEPT
                            ![local.sensorFrame].CameraViewTransform =
                                ReinterpretAsFloat4x4(Lookup(props, key).Value)]
                     /\ pc' = "intrinsics"
                     /\ UNCHANGED <<local, outcome>>
           ELSE /\ heap' = [heap EXCEPT
                       ![local.sensorFrame].CameraViewTransform = zero]
                /\ pc' = "intrinsics"
                /\ UNCHANGED <<local, outcome>>
    /\ UNCHANGED <<context, buffers, exposureTicks,
                   latestSensorFrame, latestSensorFrameMutex,
                   sent, stored, arrivals, readers>>

\* An unsigned int as its two 16-bit halves.
HalfRange == 65536
UnsignedInt(n) == [hi |-> (n \div HalfRange) % HalfRange, lo |-> n % HalfRange]
TimesFour(u) ==
    [hi |-> (u.hi * 4 + (u.lo * 4) \div HalfRange) % HalfRange,
     lo |-> (u.lo * 4) % HalfRange]

\* unsigned int imageWidth = PixelWidth; four times that for the VLC sensors.
ImageWidthMissesRightRight(type, pixelWidth) ==
    IF type \in VisibleLightTypes \ {"VisibleLightRightRight"}
    THEN TimesFour(UnsignedInt(pixelWidth))
    ELSE UnsignedInt(pixelWidth)
ImageWidth(type, pixelWidth) ==
    IF type \in VisibleLightTypes
    THEN TimesFour(UnsignedInt(pixelWidth))
    ELSE UnsignedInt(pixelWidth)

\* ref new CameraIntrinsics(cameraIntrinsics, imageWidth, PixelHeight)
CameraIntrinsics(intrinsics, width, height) ==
    [Intrinsics |-> intrinsics, ImageWidth |-> width, ImageHeight |-> height]

SetCameraIntrinsicsWithoutKeyCheck ==
    /\ pc = "intrinsics"
    /\ heap' = [heap EXCEPT ![local.sensorFrame].CameraIntrinsics =
                    CameraIntrinsics(
                        IntrinsicsValue,
                        ImageWidth(sensorType, local.softwareBitmap.PixelWidth),
                        local.softwareBitmap.PixelHeight)]
    /\ pc' = "send"
    /\ UNCHANGED <<context, buffers, exposureTicks,
                   latestSensorFrame, latestSensorFrameMutex,
                   sent, stored, local, outcome, arrivals, readers>>
SetCameraIntrinsics ==
    /\ pc = "intrinsics"
    /\ LET props == local.frame.Properties
           key == MFSampleExtension_SensorStreaming_CameraIntrinsics
       IN  IF HasKey(props, key)
           THEN heap' = [heap EXCEPT ![local.sensorFrame].CameraIntrinsics =
                            CameraIntrinsics(
                                Lookup(props, key),
                                ImageWidth(sensorType,
                                           local.softwareBitmap.PixelWidth),
                                local.softwareBitmap.PixelHeight)]
           ELSE UNCHANGED heap
    /\ pc' = "send"
    /\ UNCHANGED <<context, buffers, exposureTicks,
                   latestSensorFrame, latestSensorFrameMutex,
                   sent, stored, local, outcome, arrivals, readers>>

\* if (nullptr != _sensorFrameSink) _sensorFrameSink->Send(sensorFrame): the call
SinkSendAfterStore ==
    /\ pc = "send"
    /\ IF sensorFrameSink
       THEN /\ sent' = Append(sent, local.sensorFrame)
            /\ latestSensorFrame' = local.sensorFrame
            /\ stored' = Append(stored, local.sensorFrame)
            /\ pc' = "in_send"
       ELSE /\ pc' = "lock"
            /\ UNCHANGED <<sent, latestSensorFrame, stored>>
    /\ UNCHANGED <<context, buffers, exposureTicks,
                   latestSensorFrameMutex, heap,
                   local, outcome, arrivals, readers>>
SinkSend ==
    /\ pc = "send"
    /\ IF sensorFrameSink
       THEN /\ sent' = Append(sent, local.sensorFrame)
            /\ pc' = "in_send"
       ELSE /\ pc' = "lock"
            /\ UNCHANGED sent
    /\ UNCHANGED <<context, buffers, exposureTicks,
                   latestSensorFrame, latestSensorFrameMutex, heap,
                   stored, local, outcome, arrivals, readers>>

\* Send returns to the handler, or raises; a call the sink made on this thread
\* has returned before Send does.
SinkSendCompletesThenSetsIntrinsics ==
    /\ pc = "in_send"
    /\ rpc[CallbackThread] = "idle"
    /\ \E ok \in BOOLEAN :
          IF ok
          THEN /\ pc' = "lock"
               /\ heap' = [heap EXCEPT ![local.sensorFrame].CameraIntrinsics =
                              CameraIntrinsics(
                                  IntrinsicsValue,
                                  ImageWidth(sensorType,
                                             local.softwareBitmap.PixelWidth),
                                  local.softwareBitmap.PixelHeight)]
               /\ UNCHANGED <<local, outcome>>
          ELSE /\ Throw("throw_send")
               /\ UNCHANGED heap
    /\ UNCHANGED <<context, buffers, exposureTicks,
                   latestSensorFrame, latestSensorFrameMutex,
                   sent, stored, arrivals, readers>>
SinkSendCompletes ==
    /\ pc = "in_send"
    /\ rpc[CallbackThread] = "idle"
    /\ \E ok \in BOOLEAN :
          IF ok
          THEN /\ pc' = "lock"
               /\ UNCHANGED <<local, outcome>>
          ELSE Throw("throw_send")
    /\ UNCHANGED <<context, buffers, exposureTicks,
                   latestSensorFrame, latestSensorFrameMutex, heap,
                   sent, stored, arrivals, readers>>

\* std::lock_guard<std::mutex>: the constructor blocks until the mutex is free.
CanLockUnguarded(t) == TRUE
CanLock(t) == latestSensorFrameMutex = NoOwner

LockForStoreClearsSlot ==
    /\ pc = "lock"
    /\ CanLock(CallbackThread)
    /\ latestSensorFrameMutex' = CallbackThread
    /\ latestSensorFrame' = nullptr
    /\ pc' = "store"
    /\ UNCHANGED <<context, buffers, exposureTicks,
                   heap, sent, stored, local,
                   outcome, arrivals, readers>>
LockForStore ==
    /\ pc = "lock"
    /\ CanLock(CallbackThread)
    /\ latestSensorFrameMutex' = CallbackThread
    /\ pc' = "store"
    /\ UNCHANGED <<context, buffers, exposureTicks,
                   latestSensorFrame, heap, sent, stored, local,
                   outcome, arrivals, readers>>

\* _latestSensorFrame = sensorFrame;
StoreLatestOnlyWhenEmpty ==
    /\ pc = "store"
    /\ latestSensorFrame' = IF latestSensorFrame = nullptr
                            THEN local.sensorFrame ELSE latestSensorFrame
    /\ stored' = Append(stored, local.sensorFrame)
    /\ pc' = "unlock"
    /\ UNCHANGED <<context, buffers, exposureTicks,
                   latestSensorFrameMutex, heap, sent, local,
                   outcome, arrivals, readers>>
StoreLatest ==
    /\ pc = "store"
    /\ latestSensorFrame' = local.sensorFrame
    /\ stored' = Append(stored, local.sensorFrame)
    /\ pc' = "unlock"
    /\ UNCHANGED <<context, buffers, exposureTicks,
                   latestSensorFrameMutex, heap, sent, local,
                   outcome, arrivals, readers>>

\* The lock guard's destructor, then the end of the handler.
UnlockAndReturn ==
    /\ pc = "unlock"
    /\ latestSensorFrameMutex' = NoOwner
    /\ Return("completed")
    /\ UNCHANGED <<context, buffers, exposureTicks,
                   latestSensorFrame, heap, sent, stored, arrivals,
                   readers>>

\* ---------------------------------------------------- GetLatestSensorFrame
\* What latestSensorFrame = _latestSensorFrame can read: the slot, unless the
\* callback thread is assigning the slot at the same moment (a data race).
LoadOutcomes ==
    IF pc = "store"
    THEN {latestSensorFrame, local.sensorFrame, TornRef}
    ELSE {latestSensorFrame}

GetCall(r) ==
    /\ rpc[r] = "idle"
    /\ rpc' = [rpc EXCEPT ![r] = "lock"]
    /\ rlocal' = [rlocal EXCEPT ![r] = nullptr]
    /\ UNCHANGED <<context, buffers, exposureTicks,
                   latestSensorFrame, latestSensorFrameMutex, heap,
                   sent, stored, pc, local, outcome, arrivals>>

GetLock(r) ==
    /\ rpc[r] = "lock"
    /\ CanLock(r)
    /\ latestSensorFrameMutex' = r
    /\ rpc' = [rpc EXCEPT ![r] = "load"]
    /\ UNCHANGED <<context, buffers, exposureTicks,
                   latestSensorFrame, heap, sent, stored, pc, local,
                   outcome, arrivals, rlocal>>

GetLoad(r) ==
    /\ rpc[r] = "load"
    /\ \E v \in LoadOutcomes : rlocal' = [rlocal EXCEPT ![r] = v]
    /\ rpc' = [rpc EXCEPT ![r] = "unlock"]
    /\ UNCHANGED <<context, buffers, exposureTicks,
                   latestSensorFrame, latestSensorFrameMutex, heap,
                   sent, stored, pc, local, outcome, arrivals>>

GetUnlockKeepsMutex(r) ==
    /\ rpc[r] = "unlock"
    /\ rpc' = [rpc EXCEPT ![r] = "return"]
    /\ UNCHANGED <<context, buffers, exposureTicks,
                   latestSensorFrame, latestSensorFrameMutex, heap, sent,
                   stored, pc, local, outcome, arrivals, rlocal>>
GetUnlock(r) ==
    /\ rpc[r] = "unlock"
    /\ latestSensorFrameMutex' = NoOwner
    /\ rpc' = [rpc EXCEPT ![r] = "return"]
    /\ UNCHANGED <<context, buffers, exposureTicks,
                   latestSensorFrame, heap, sent, stored, pc, local,
                   outcome, arrivals, rlocal>>

\* return latestSensorFrame; the caller holds the value while rpc = "return".
GetReturn(r) ==
    /\ rpc[r] = "return"
    /\ rpc' = [rpc EXCEPT ![r] = "idle"]
    /\ UNCHANGED <<context, buffers, exposureTicks,
                   latestSensorFrame, latestSensorFrameMutex, heap,
                   sent, stored, pc, local, outcome, arrivals, rlocal>>

\* ------------------------------------------------------------ specifications
FrameArrivedSteps ==
    \/ ValidateFrame
    \/ ConvertTimestamp
    \/ FromHistoricalTargetTime
    \/ PoseCatch
    \/ CopySoftwareBitmap
    \/ NewSensorFrame
    \/ LookupFrameCoordinateSystem
    \/ TryGetTransformTo
    \/ ZeroFrameToOrigin
    \/ SetCameraViewTransform
    \/ SetCameraIntrinsics
    \/ SinkSend
    \/ SinkSendCompletes
    \/ LockForStore
    \/ StoreLatest
    \/ UnlockAndReturn

GetLatestSensorFrame(r) ==
    \/ GetCall(r)
    \/ GetLock(r)
    \/ GetLoad(r)
    \/ GetUnlock(r)
    \/ GetReturn(r)

\* Concurrent specification: the callback thread and the reader threads.
Init ==
    /\ InitContext({"VisibleLightLeftFront"}, {1000})

Next ==
    \/ AcquireLean
    \/ FrameArrivedSteps
    \/ \E r \in Readers : GetLatestSensorFrame(r)

Spec == Init /\ [][Next]_vars

\* Data specification: the handler alone, over every frame of the source.
InitData ==
    /\ InitContext(SensorTypes, TimeOffsets)

NextData ==
    \/ AcquireAny
    \/ FrameArrivedSteps

SpecData == InitData /\ [][NextData]_vars

\* The frame source reuses its storage for another exposure once the handler
\* has let go of the MediaFrameReference.
SourceReusesBuffer ==
    /\ pc = "idle"
    /\ \E p \in PixelContents \ {buffers[SourceBuffer]} :
          buffers' = [buffers EXCEPT ![SourceBuffer] = p]
    /\ UNCHANGED <<context, exposureTicks, latestSensorFrame,
                   latestSensorFrameMutex, heap, sent, stored, pc, local,
                   outcome, arrivals, readers>>

\* Copy specification: the handler and a frame source that recycles storage.
NextCopy ==
    \/ AcquireLean
    \/ FrameArrivedSteps
    \/ SourceReusesBuffer

SpecCopy == Init /\ [][NextCopy]_vars

\* A sink whose Send calls GetLatestSensorFrame of the same context: the call
\* runs on the callback thread, between the call of Send and its return.
SinkCallsGetLatestSensorFrame ==
    /\ pc = "in_send"
    /\ GetLatestSensorFrame(CallbackThread)

\* Scheduling: a thread inside GetLatestSensorFrame keeps running and gets the
\* mutex if it is free again and again; a thread that holds the mutex runs on
\* to the end of the guarded block.  Nothing makes Send return, and nothing
\* makes a frame arrive or a caller call.
Fairness ==
    /\ \A t \in Threads : /\ SF_vars(GetLock(t))
                          /\ WF_vars(GetLoad(t))
                          /\ WF_vars(GetUnlock(t))
    /\ WF_vars(StoreLatest)
    /\ WF_vars(UnlockAndReturn)

\* Scheduled specification: callback thread, readers and a re-entrant sink
\* under fair scheduling.
NextLive ==
    \/ AcquireLive
    \/ FrameArrivedSteps
    \/ \E r \in Readers : GetLatestSensorFrame(r)
    \/ SinkCallsGetLatestSensorFrame

SpecLive == Init /\ [][NextLive]_vars /\ Fairness

\* ------------------------------------------------------------------- helpers
LastOf(q) == IF q = <<>> THEN nullptr ELSE q[Len(q)]

\* The frame fails one of the three validation checks.
Payloadless(f) ==
    \/ f = Null
    \/ f.VideoMediaFrame = Null
    \/ f.VideoMediaFrame.SoftwareBitmap = Null

\* References some party outside the running handler can hold.
Exposed == (Range(sent) \cup {latestSensorFrame} \cup Range(rlocal)) \ {nullptr}

\* ------------------------------------------------------------------- claims

\* C1: an invocation whose acquired frame is null, has no VideoMediaFrame or
\* has no SoftwareBitmap returns at the validation step, and that step leaves
\* the frames passed to the sink, the latest-frame slot and the heap as they
\* were.
C1_PayloadlessArrivalTouchesNothing ==
    [][(pc = "validate" /\ Payloadless(local.frame)) =>
          /\ sent' = sent
          /\ latestSensorFrame' = latestSensorFrame
          /\ stored' = stored
          /\ heap' = heap
          /\ (pc' # pc =>
                /\ pc' = "idle"
                /\ outcome' \in {"null_frame", "no_video", "no_bitmap"})]_vars

\* A bitmap-less arrival has returned after an earlier arrival was delivered
\* and cached.
C1_Witness ==
    /\ pc = "idle"
    /\ outcome = "no_bitmap"
    /\ latestSensorFrame # nullptr
    /\ Len(sent) = 1

\* C2: when FromHistoricalTargetTime raises, the catch block returns: nothing
\* is passed to the sink, the slot keeps the frame it held, and no SensorFrame
\* is created for the arrival.
C2_PoseFailureDiscardsArrival ==
    [][pc = "pose_catch" =>
          /\ sent' = sent
          /\ latestSensorFrame' = latestSensorFrame
          /\ stored' = stored
          /\ heap' = heap
          /\ (pc' # pc => pc' = "idle" /\ outcome' = "pose_failed")]_vars

\* A pose failure has been discarded while an earlier frame stays cached.
C2_Witness ==
    /\ pc = "idle"
    /\ outcome = "pose_failed"
    /\ latestSensorFrame # nullptr
    /\ latestSensorFrame = LastOf(stored)

\* C3: GetLatestSensorFrame reads the frame of the latest successful arrival:
\* the slot is empty until an arrival has stored, every load returns the frame
\* stored last, an arrival that completes has stored its own frame, and an
\* arrival that ends any other way has stored nothing.
C3_GetReturnsLatestSuccessfulFrame ==
    /\ [](latestSensorFrame = LastOf(stored))
    /\ [][/\ \A r \in Readers :
                (rpc[r] = "load" /\ rpc'[r] = "unlock") =>
                    rlocal'[r] = LastOf(stored)
          /\ (pc # "idle" /\ pc' = "idle") =>
                IF outcome' = "completed"
                THEN /\ local.sensorFrame = LastOf(stored)
                     /\ latestSensorFrame' = local.sensorFrame
                ELSE /\ local.sensorFrame \notin Range(stored)
                     /\ latestSensorFrame' = latestSensorFrame]_vars

\* A reader got the frame of the only successful arrival, the arrival before
\* it having failed after it had created its SensorFrame.
C3_Witness ==
    /\ pc = "idle"
    /\ Len(heap) = 2
    /\ stored = <<2>>
    /\ \E r \in Readers : rpc[r] = "return" /\ rlocal[r] = 2

\* C4: whatever the interleaving of GetLatestSensorFrame with the store, a
\* reader holds nullptr or a reference that some arrival stored, and the
\* SensorFrame behind it has both transforms assigned.
C4_NoTornRead ==
    \A r \in Readers :
        \/ rlocal[r] = nullptr
        \/ /\ rlocal[r] \in Range(stored)
           /\ heap[rlocal[r]].FrameToOrigin # Unset
           /\ heap[rlocal[r]].CameraViewTransform # Unset

\* A reader holds the mutex and the previous frame while the callback thread
\* waits to store the next one.
C4_Witness ==
    /\ pc = "lock"
    /\ \E r \in Readers :
          /\ rpc[r] = "unlock"
          /\ latestSensorFrameMutex = r
          /\ rlocal[r] # nullptr
          /\ rlocal[r] # local.sensorFrame

\* C5: no invocation of FrameArrived ends with an exception leaving the
\* handler.
C5_NoExceptionEscapes == outcome \notin ExceptionOutcomes

\* C6: with a sink configured, Send has returned for every frame that is in
\* the slot or in a reader's hands, and the callback thread does not own the
\* mutex while it is calling Send.
C6_SentBeforeStored ==
    sensorFrameSink =>
        /\ \A ref \in ({latestSensorFrame} \cup Range(rlocal)) \ {nullptr} :
              /\ ref \in Range(sent)
              /\ ~(pc \in {"send", "in_send"} /\ local.sensorFrame = ref)
        /\ pc \in {"send", "in_send"} => latestSensorFrameMutex # CallbackThread

\* A reader returns the first frame while the second is inside Send.
C6_Witness ==
    /\ sensorFrameSink
    /\ pc = "in_send"
    /\ local.sensorFrame = 2
    /\ \E r \in Readers : rpc[r] = "return" /\ rlocal[r] = 1

\* Positions of the handler at which its SensorFrame has been passed to Send
\* or stored, or is about to be.
HandoffPositions == {"send", "in_send", "lock", "store", "unlock"}

\* Both transforms of the frame behind ref have been assigned.
TransformsAssigned(ref) ==
    /\ heap[ref].FrameToOrigin # Unset
    /\ heap[ref].CameraViewTransform # Unset

\* Every frame a party outside the handler holds is fully built, and the frame
\* the handler is handing off carries CameraIntrinsics exactly when the
\* source supplied them.
ExposedFramesComplete ==
    /\ \A ref \in Exposed : ref \in DOMAIN heap /\ TransformsAssigned(ref)
    /\ pc \in HandoffPositions =>
          /\ TransformsAssigned(local.sensorFrame)
          /\ heap[local.sensorFrame].FrameType = sensorType
          /\ heap[local.sensorFrame].Timestamp = local.timestamp
          /\ heap[local.sensorFrame].SoftwareBitmap = local.softwareBitmap
          /\ (heap[local.sensorFrame].CameraIntrinsics # Null) <=>
                HasKey(local.frame.Properties,
                       MFSampleExtension_SensorStreaming_CameraIntrinsics)

C8_NoWriteAfterConstruction ==
    [][\A ref \in DOMAIN heap : heap'[ref] = heap[ref]]_vars

\* C8 amended: after the constructor the handler still assigns FrameToOrigin,
\* CameraViewTransform and CameraIntrinsics of its own frame, before Send;
\* no step writes to a frame that was passed to Send, stored, or created by
\* an earlier arrival, and the constructor's three fields never change.
C8_NoWriteAfterHandoff ==
    [][\A ref \in DOMAIN heap :
          /\ (ref \in Exposed \/ ref # local.sensorFrame) =>
                heap'[ref] = heap[ref]
          /\ heap'[ref].FrameType = heap[ref].FrameType
          /\ heap'[ref].Timestamp = heap[ref].Timestamp
          /\ heap'[ref].SoftwareBitmap = heap[ref].SoftwareBitmap]_vars

\* The handler is assigning the transforms of a second frame while the first
\* is in the slot and with the sink.
C8_Witness ==
    /\ pc = "view"
    /\ local.sensorFrame = 2
    /\ latestSensorFrame = 1
    /\ sent = <<1>>

\* Positions of the handler after FrameToOrigin / CameraViewTransform are set.
AfterFrameToOrigin == {"view", "intrinsics"} \cup HandoffPositions
AfterCameraViewTransform == {"intrinsics"} \cup HandoffPositions

\* The frame's origin key is missing or holds null.
OriginKeyMissingOrNull(f) ==
    \/ ~HasKey(f.Properties, c_MFSampleExtension_Spatial_CameraCoordinateSystem)
    \/ Lookup(f.Properties,
              c_MFSampleExtension_Spatial_CameraCoordinateSystem) = Null

\* C9: FrameToOrigin is the all-zero matrix when the origin key is absent,
\* holds null, or TryGetTransformTo returned nothing, and the resolved
\* transform otherwise; none of the three cases ends the arrival, and the
\* frame the handler stores (and sends, with a sink) carries that value.
C9_FrameToOriginZeroOrResolved ==
    /\ [](pc \in AfterFrameToOrigin =>
            /\ heap[local.sensorFrame].FrameToOrigin =
                  IF \/ OriginKeyMissingOrNull(local.frame)
                     \/ local.frameToOriginReference = Null
                  THEN [i \in 1..Float4x4Cells |-> <<0, 0, 0, 0>>]
                  ELSE local.frameToOriginReference.Value
            /\ pc = "unlock" =>
                  /\ latestSensorFrame = local.sensorFrame
                  /\ sensorFrameSink => LastOf(sent) = local.sensorFrame)
    /\ [][/\ (pc = "origin_lookup" /\ OriginKeyMissingOrNull(local.frame)) =>
                pc' = "origin_resolve"
          /\ (pc = "origin_resolve" /\ local.frameCoordinateSystem = Null) =>
                pc' = "origin_default"
          /\ pc = "origin_default" => pc' = "view"
          /\ (pc = "origin_resolve" /\ pc' = "idle") =>
                outcome' = "throw_origin_provider"]_vars

\* TryGetTransformTo returned nothing and the frame, its FrameToOrigin all
\* zero, has been sent and stored.
C9_Witness ==
    /\ pc = "unlock"
    /\ sensorFrameSink
    /\ local.frameCoordinateSystem # Null
    /\ local.frameToOriginReference = Null
    /\ heap[latestSensorFrame].FrameToOrigin = zero
    /\ LastOf(sent) = latestSensorFrame

\* Byte i (from 1) of the memory of a float4x4.
MemoryByte(m, i) == m[((i - 1) \div FloatBytes) + 1][((i - 1) % FloatBytes) + 1]

\* C10: with the view-transform key present, every byte of the frame's
\* CameraViewTransform is the byte at the same offset of the key's payload;
\* with the key absent, CameraViewTransform is the all-zero matrix.
C10_CameraViewTransformByteExact ==
    pc \in AfterCameraViewTransform =>
        LET props == local.frame.Properties
            key == c_MFSampleExtension_Spatial_CameraViewTransform
            m == heap[local.sensorFrame].CameraViewTransform
        IN  /\ DOMAIN m = 1..Float4x4Cells
            /\ IF HasKey(props, key)
               THEN \A i \in 1..(Float4x4Cells * FloatBytes) :
                       MemoryByte(m, i) = Lookup(props, key).Value[i]
               ELSE \A i \in 1..(Float4x4Cells * FloatBytes) :
                       MemoryByte(m, i) = 0

\* A frame whose view-transform key carried the ramp payload has been stored.
C10_Witness ==
    /\ pc = "unlock"
    /\ latestSensorFrame = local.sensorFrame
    /\ HasKey(local.frame.Properties,
              c_MFSampleExtension_Spatial_CameraViewTransform)
    /\ Lookup(local.frame.Properties,
              c_MFSampleExtension_Spatial_CameraViewTransform).Value = RampBytes
    /\ heap[latestSensorFrame].CameraViewTransform[1] = <<10, 17, 24, 31>>

\* C11: with the camera-intrinsics key present, the stored width is four
\* times the bitmap's PixelWidth, modulo 2^32, for the four visible-light
\* sensor types and the PixelWidth itself for any other type; the stored
\* height is the bitmap's PixelHeight.
C11_IntrinsicsWidthTimesFourForVisibleLight ==
    (/\ pc \in HandoffPositions
     /\ HasKey(local.frame.Properties,
               MFSampleExtension_SensorStreaming_CameraIntrinsics)) =>
        LET bitmap == local.frame.VideoMediaFrame.SoftwareBitmap
            ci == heap[local.sensorFrame].CameraIntrinsics
        IN  /\ ci # Null
            /\ ci.ImageHeight = bitmap.PixelHeight
            /\ IF sensorType \in {"VisibleLightLeftFront", "VisibleLightLeftLeft",
                                  "VisibleLightRightFront",
                                  "VisibleLightRightRight"}
               THEN \* 4 * (W mod 2^30), written without numbers above 2^31
                    /\ ci.ImageWidth.lo % 4 = 0
                    /\ ci.ImageWidth.hi * 16384 + ci.ImageWidth.lo \div 4
                          = bitmap.PixelWidth % 1073741824
               ELSE ci.ImageWidth.hi * 65536 + ci.ImageWidth.lo
                          = bitmap.PixelWidth

\* A VisibleLightRightRight frame 160 pixels wide has been stored with an
\* intrinsics width of 640.
C11_Witness ==
    /\ pc = "unlock"
    /\ sensorType = "VisibleLightRightRight"
    /\ latestSensorFrame = local.sensorFrame
    /\ local.softwareBitmap.PixelWidth = 160
    /\ heap[latestSensorFrame].CameraIntrinsics # Null
    /\ heap[latestSensorFrame].CameraIntrinsics.ImageWidth = [hi |-> 0, lo |-> 640]

\* C12: the pixels of a SensorFrame live in storage of their own, and no step
\* of the handler or of the frame source changes the pixels of a SensorFrame
\* that exists.
C12_ImageBufferIsIndependentCopy ==
    /\ [](\A ref \in DOMAIN heap :
            /\ heap[ref].SoftwareBitmap.pixels # SourceBuffer
            /\ heap[ref].SoftwareBitmap.pixels \in DOMAIN buffers)
    /\ [][\A ref \in DOMAIN heap :
            buffers'[heap'[ref].SoftwareBitmap.pixels] =
                buffers[heap[ref].SoftwareBitmap.pixels]]_vars

\* The source has put another exposure into its storage while the frame in the
\* slot, which the sink also holds, keeps the pixels it was built from.
C12_Witness ==
    /\ latestSensorFrame # nullptr
    /\ latestSensorFrame \in Range(sent)
    /\ buffers[SourceBuffer] = "exposure_b"
    /\ buffers[heap[latestSensorFrame].SoftwareBitmap.pixels] = "exposure_a"

\* C13: a SensorFrame carries CameraIntrinsics exactly when the source frame's
\* property bag has the camera-intrinsics key; the intrinsics step never ends
\* the arrival, and the frame the handler stores (and sends, with a sink) is
\* that frame, with or without intrinsics.
C13_IntrinsicsIffKeyPresent ==
    /\ [](pc \in HandoffPositions =>
            /\ (heap[local.sensorFrame].CameraIntrinsics = Null) <=>
                  (MFSampleExtension_SensorStreaming_CameraIntrinsics
                      \notin DOMAIN local.frame.Properties)
            /\ pc = "unlock" =>
                  /\ latestSensorFrame = local.sensorFrame
                  /\ sensorFrameSink => LastOf(sent) = local.sensorFrame)
    /\ [][pc = "intrinsics" => pc' = "send"]_vars

\* A frame without the camera-intrinsics key has been sent and stored with
\* empty CameraIntrinsics.
C13_Witness ==
    /\ pc = "unlock"
    /\ sensorFrameSink
    /\ ~HasKey(local.frame.Properties,
               MFSampleExtension_SensorStreaming_CameraIntrinsics)
    /\ heap[latestSensorFrame].CameraIntrinsics = Null
    /\ LastOf(sent) = latestSensorFrame

\* C14: every SensorFrame's timestamp is its source frame's relative ticks
\* plus the one offset of the context, which never changes; so the timestamps
\* of any two frames differ by what their relative ticks differ by, and
\* equal ticks give equal timestamps.
C14_TimestampIsTicksPlusFixedOffset ==
    /\ [](/\ Len(exposureTicks) = Len(heap)
          /\ \A i \in DOMAIN heap :
                heap[i].Timestamp - exposureTicks[i] = timeConverter
          /\ \A i, j \in DOMAIN heap :
                heap[i].Timestamp - heap[j].Timestamp =
                    exposureTicks[i] - exposureTicks[j])
    /\ [][timeConverter' = timeConverter]_vars

\* Two frames exposed 15 ticks apart carry timestamps 15 ticks apart.
C14_Witness ==
    /\ Len(heap) = 2
    /\ exposureTicks = <<10, 25>>
    /\ heap[2].Timestamp - heap[1].Timestamp = 15
    /\ latestSensorFrame = 2

\* C15: an arrival that fails validation or pose resolution calls Send never;
\* with a sink, every other arrival has called Send exactly once with its own
\* frame when the handler is left, and the frames the sink received are the
\* frames of the successful arrivals in order; without a sink nothing is sent
\* and the arrival's frame is in the slot.
C15_ExactlyOneSendPerSuccessfulArrival ==
    [][(pc # "idle" /\ pc' = "idle") =>
          IF outcome' \in {"null_frame", "no_video", "no_bitmap", "pose_failed"}
          THEN /\ sent' = sent
               /\ local.sensorFrame = nullptr
          ELSE /\ local.sensorFrame # nullptr
               /\ IF sensorFrameSink
                  THEN /\ Cardinality({i \in DOMAIN sent :
                                          sent[i] = local.sensorFrame}) = 1
                       /\ LastOf(sent) = local.sensorFrame
                       /\ sent' = stored'
                  ELSE /\ sent' = <<>>
                       /\ latestSensorFrame' = local.sensorFrame]_vars

\* C16: the mutex is held only across the single load of a GetLatestSensorFrame
\* call or the single store of FrameArrived, never while Send runs on behalf
\* of the handler; and under fair scheduling every GetLatestSensorFrame call
\* that has started returns, whether made by a reader or by the sink from
\* within Send, also while the arrival stays inside Send.
C16_MutexHeldBrieflyAndGetReturns ==
    /\ [](\/ latestSensorFrameMutex = NoOwner
          \/ /\ latestSensorFrameMutex \in Readers
             /\ rpc[latestSensorFrameMutex] \in {"load", "unlock"}
          \/ /\ latestSensorFrameMutex = CallbackThread
             /\ IF pc = "in_send"
                THEN rpc[CallbackThread] \in {"load", "unlock"}
                ELSE /\ pc \in {"store", "unlock"}
                     /\ rpc[CallbackThread] = "idle")
    /\ \A t \in Threads : (rpc[t] = "lock") ~> (rpc[t] = "return")
C16_Witness ==
    /\ pc = "in_send"
    /\ rpc[CallbackThread] = "return"
    /\ \E r \in Readers : rpc[r] = "return" /\ rlocal[r] = latestSensorFrame
    /\ latestSensorFrameMutex = NoOwner

\* C17: with a sink configured, whenever no FrameArrived invocation is in
\* progress the latest-frame slot holds the frame most recently passed to the
\* sink, and is empty exactly when nothing has been passed to the sink.
C17_SlotIsLastDelivered ==
    (sensorFrameSink /\ pc = "idle") =>
        /\ latestSensorFrame = LastOf(sent)
        /\ (latestSensorFrame = nullptr) <=> (sent = <<>>)

\* C18: the latest-frame slot never goes backwards.  References number the
\* frames in arrival order and nullptr is below them all: every step leaves
\* the slot where it is or moves it to the frame of the arrival being stored,
\* which is newer; no step empties it; every load reads the slot as it is, so
\* a value a call returns is never newer than the slot, and a call that loads
\* after another call has loaded returns that call's frame or a newer one.
C18_SlotNeverGoesBackwards ==
    /\ [](\A r \in Readers :
             rpc[r] \in {"unlock", "return"} =>
                 rlocal[r] \in 0..latestSensorFrame)
    /\ [][/\ latestSensorFrame' >= latestSensorFrame
          /\ latestSensorFrame' # latestSensorFrame =>
                /\ pc = "store"
                /\ latestSensorFrame' = local.sensorFrame
          /\ \A r \in Readers :
                (rpc[r] = "load" /\ rpc'[r] = "unlock") =>
                    /\ rlocal'[r] = latestSensorFrame
                    /\ \A q \in Readers :
                          rpc[q] \in {"unlock", "return"} =>
                              rlocal'[r] >= rlocal[q]]_vars
C18_Witness ==
    /\ stored = <<1, 2>>
    /\ latestSensorFrame = 2
    /\ \E r \in Readers : rpc[r] = "return" /\ rlocal[r] = 2
====
